---- MODULE Spec2Model ----
(***************************************************************************)
(* JitCalc (src/main.cpp): an s-expression calculator with two back ends   *)
(* built on one generic tree walk (Visitor<EvalReturn>::eval):             *)
(*   - CalculatorFunction        interprets the tree on every call;        *)
(*   - CodeGenCalculatorFunction walks the tree once, in its constructor,  *)
(*     emitting SSE2 instructions through AsmJit, and afterwards only      *)
(*     calls the generated routine.                                        *)
(*                                                                         *)
(* Abstractions.                                                           *)
(*   double   A double is a signed rational, a signed infinity or NaN      *)
(*            (zero keeps its sign).  Rounding and overflow are not        *)
(*            modelled; both back ends use the same IEEE operations, so    *)
(*            what is compared is which operation is applied to which      *)
(*            operands.                                                    *)
(*   string   A std::string is a sequence of one-character strings.        *)
(*   AsmJit   The compiler is the sequence of instructions it was asked    *)
(*            to emit over virtual registers; make() is taken to produce   *)
(*            a routine that executes exactly those instructions.          *)
(*   UB       Reading a std::vector<double> outside its bounds is          *)
(*            undefined: the read yields an arbitrary double or the        *)
(*            process dies.  The outcome is chosen by the caller of the    *)
(*            operator (the "oracle").                                     *)
(*            Taking &args[0] of an empty vector reads nothing, and is     *)
(*            taken to do nothing.                                         *)
(*   STL      std::transform applies its function to the elements in       *)
(*            order, as the library implementations do.                    *)
(*   lists    Every List has a head and at least two operands (an          *)
(*            operation given fewer indexes its operand vector out of      *)
(*            bounds, in both back ends).                                  *)
(***************************************************************************)
EXTENDS Integers, Sequences, FiniteSets, TLC

(***************************************************************************)
(* Bounds of the model.                                                    *)
(***************************************************************************)
\* Every formula body with at most MaxOps List nodes, each of two operands,
\* is tried (and the larger bodies of Examples).
MaxOps == 1
\* Longest argument vector handed to a function.
MaxArgs == 2

(***************************************************************************)
(* double                                                                  *)
(***************************************************************************)
Abs(i) == IF i < 0 THEN -i ELSE i

RECURSIVE Gcd(_, _)
Gcd(a, b) == IF b = 0 THEN a ELSE Gcd(b, a % b)

NaN == [k |-> "nan", s |-> 1, n |-> 0, d |-> 1]
Inf(s) == [k |-> "inf", s |-> s, n |-> 0, d |-> 1]
\* The double of sign s and magnitude n/d, in lowest terms.
Fin(s, n, d) == LET g == Gcd(n, d) IN [k |-> "fin", s |-> s, n |-> n \div g, d |-> d \div g]
\* The double of the integer i (the default double() is Dbl(0)).
Dbl(i) == Fin(IF i < 0 THEN -1 ELSE 1, Abs(i), 1)

IsZero(a) == a.k = "fin" /\ a.n = 0
Neg(a) == IF a.k = "nan" THEN a ELSE [a EXCEPT !.s = -a.s]

\* d[0] + d[1] (addsd)
DAdd(a, b) ==
    IF a.k = "nan" \/ b.k = "nan" THEN NaN
    ELSE IF a.k = "inf" /\ b.k = "inf" THEN (IF a.s = b.s THEN a ELSE NaN)
    ELSE IF a.k = "inf" THEN a
    ELSE IF b.k = "inf" THEN b
    ELSE LET num == a.s * a.n * b.d + b.s * b.n * a.d
             den == a.d * b.d
         IN  IF num = 0
             THEN Fin(IF a.s = -1 /\ b.s = -1 THEN -1 ELSE 1, 0, 1)
             ELSE Fin(IF num < 0 THEN -1 ELSE 1, Abs(num), den)

\* d[0] - d[1] (subsd)
DSub(a, b) == DAdd(a, Neg(b))

\* d[0] * d[1] (mulsd)
DMul(a, b) ==
    IF a.k = "nan" \/ b.k = "nan" THEN NaN
    ELSE IF (a.k = "inf" /\ IsZero(b)) \/ (IsZero(a) /\ b.k = "inf") THEN NaN
    ELSE IF a.k = "inf" \/ b.k = "inf" THEN Inf(a.s * b.s)
    ELSE Fin(a.s * b.s, a.n * b.n, a.d * b.d)

\* d[0] / d[1] (divsd): dividing by zero gives an infinity or NaN, never an error
DDiv(a, b) ==
    IF a.k = "nan" \/ b.k = "nan" THEN NaN
    ELSE IF a.k = "inf" /\ b.k = "inf" THEN NaN
    ELSE IF IsZero(a) /\ IsZero(b) THEN NaN
    ELSE IF a.k = "inf" \/ IsZero(b) THEN Inf(a.s * b.s)
    ELSE IF b.k = "inf" THEN Fin(a.s * b.s, 0, 1)
    ELSE Fin(a.s * b.s, a.n * b.d, a.d * b.n)

(***************************************************************************)
(* std::atof: optional sign, digits, optional fraction; whatever follows   *)
(* is ignored and a text with no digits gives 0.0.                         *)
(***************************************************************************)
DigitVal(ch) ==
    CASE ch = "0" -> 0 [] ch = "1" -> 1 [] ch = "2" -> 2 [] ch = "3" -> 3
      [] ch = "4" -> 4 [] ch = "5" -> 5 [] ch = "6" -> 6 [] ch = "7" -> 7
      [] ch = "8" -> 8 [] ch = "9" -> 9 [] OTHER -> -1

isdigit(ch) == DigitVal(ch) >= 0

\* Reads digits of s from position i on; acc = [n, d, i]: n the digits read so
\* far as an integer, d multiplied by scale for every digit read.
RECURSIVE ReadDigits(_, _, _)
ReadDigits(s, acc, scale) ==
    IF acc.i <= Len(s) /\ isdigit(s[acc.i])
    THEN ReadDigits(s, [n |-> acc.n * 10 + DigitVal(s[acc.i]), d |-> acc.d * scale,
                        i |-> acc.i + 1], scale)
    ELSE acc

atof(s) ==
    LET neg   == Len(s) >= 1 /\ s[1] = "-"
        start == IF neg \/ (Len(s) >= 1 /\ s[1] = "+") THEN 2 ELSE 1
        int   == ReadDigits(s, [n |-> 0, d |-> 1, i |-> start], 1)
        frac  == IF int.i <= Len(s) /\ s[int.i] = "."
                 THEN ReadDigits(s, [int EXCEPT !.i = int.i + 1], 10)
                 ELSE int
    IN  Fin(IF neg THEN -1 ELSE 1, frac.n, frac.d)

(***************************************************************************)
(* Cell: the S-expression                                                  *)
(***************************************************************************)
Symbol(val) == [type |-> "Symbol", val |-> val, list |-> <<>>]
Number(val) == [type |-> "Number", val |-> val, list |-> <<>>]
List(cells) == [type |-> "List", val |-> <<>>, list |-> cells]


\* The characters of the std::strings the model uses.
Str1(ch) == <<ch>>

(***************************************************************************)
(* AsmJit::X86Compiler, as far as the code uses it: the instructions       *)
(* emitted so far, over virtual registers numbered from 1.                 *)
(***************************************************************************)
Instr(op, dst, src, imm, off) == [op |-> op, dst |-> dst, src |-> src, imm |-> imm, off |-> off]

\* c.mov(gpreg, i[0]): the 64-bit pattern of a double into an integer register
Mov(gp, bits) == Instr("mov", gp, 0, bits, 0)
\* c.movq(v, gpreg): that pattern into an SSE register
Movq(x, gp) == Instr("movq", x, gp, NaN, 0)
\* compiler.movsd(v, Mem(ptr, offset)): the double at byte offset off of the argument array
Movsd(x, off) == Instr("movsd", x, 0, NaN, off)
\* compiler.addsd/subsd/mulsd/divsd(args[0], args[1]): dst := dst op src
Arith(op, dst, src) == Instr(op, dst, src, NaN, 0)
\* compiler.ret(retVar)
Ret(x) == Instr("ret", 0, x, NaN, 0)

SizeofDouble == 8

(***************************************************************************)
(* Visitor<EvalReturn>: the members of the visitor and of its subclasses,  *)
(* with the arguments of the call in progress (args, oracle) and the log   *)
(* of the walk in progress (trace).                                        *)
(*   functionMap    name -> operation                                      *)
(*   symbolHandler  "none" while the std::function is empty                *)
(*   argNameToIndex std::map<std::string,int>                              *)
(*   code, nXmm, nGp  the compiler of CodeGenCalculatorFunction            *)
(*   oob            an out-of-bounds read of args has happened             *)
(*   walks          how many times generate() has walked the tree          *)
(*   freed          how many times the generated routine was freed         *)
(***************************************************************************)
Emit(v, ins) == [v EXCEPT !.code = Append(@, ins)]
Log(v, ev) == [v EXCEPT !.trace = Append(@, ev)]

\* What a handler or eval gives back: the visitor afterwards, the EvalReturn,
\* and the exception thrown ("none" when it returned).
Out(v, r, err) == [v |-> v, r |-> r, err |-> err]

\* EvalReturn(): double() is 0.0, XmmVar() names no register.
EvalReturnDefault(v) == IF v.kind = "CodeGen" THEN 0 ELSE Dbl(0)

\* args[i] of a std::vector<double> (i from 0): outside the vector the read is
\* undefined, and gives the oracle's double or kills the process.
ReadArg(v, i) ==
    IF i < Len(v.args) THEN Out(v, v.args[i + 1], "none")
    ELSE IF v.oracle.crash THEN Out([v EXCEPT !.oob = TRUE], Dbl(0), "crash")
    ELSE Out([v EXCEPT !.oob = TRUE], v.oracle.val, "none")

\* Calculator(): the four operations on doubles.
CalculatorFunctionMap ==
    (Str1("+") :> "add") @@ (Str1("-") :> "sub") @@ (Str1("/") :> "div") @@ (Str1("*") :> "mul")

\* CodeGenCalculatorFunction(): the four operations as SSE2 instructions.
CodeGenFunctionMap ==
    (Str1("+") :> "addsd") @@ (Str1("-") :> "subsd") @@ (Str1("*") :> "mulsd") @@ (Str1("/") :> "divsd")

\* What an operation computes from its first two operands.
Apply(f, a, b) ==
    CASE f \in {"add", "addsd"} -> DAdd(a, b)
      [] f \in {"sub", "subsd"} -> DSub(a, b)
      [] f \in {"mul", "mulsd"} -> DMul(a, b)
      [] f \in {"div", "divsd"} -> DDiv(a, b)

\* Mutant: the instruction is emitted with its operands exchanged.
CallFunctionSwapped(v, f, evalArgs) ==
    IF v.kind = "CodeGen"
    THEN Out(Emit(v, Arith(f, evalArgs[2], evalArgs[1])), evalArgs[2], "none")
    ELSE Out(v, Apply(f, evalArgs[1], evalArgs[2]), "none")

\* functionMap.at(name)(evalArgs)
CallFunction(v, f, evalArgs) ==
    IF v.kind = "CodeGen"
    THEN Out(Emit(v, Arith(f, evalArgs[1], evalArgs[2])), evalArgs[1], "none")
    ELSE Out(v, Apply(f, evalArgs[1], evalArgs[2]), "none")

\* SetXmmVar(compiler, xVar, x)
SetXmmVar(v, xVar, x) ==
    LET gpreg == v.nGp + 1
    IN  Emit(Emit([v EXCEPT !.nGp = gpreg], Mov(gpreg, x)), Movq(xVar, gpreg))

\* numberHandler(c.val)
numberHandler(v, number) ==
    IF v.kind = "CodeGen"
    THEN LET x    == atof(number)
             xVar == v.nXmm + 1
         IN  Out(SetXmmVar([v EXCEPT !.nXmm = xVar], xVar, x), xVar, "none")
    ELSE Out(v, atof(number), "none")

\* Mutant: one register per parameter, loaded at its first use and handed
\* out again at every later use.
CodeGenSymbolHandlerCached(v, name) ==
    LET x  == v.nXmm + 1
        v1 == [v EXCEPT !.nXmm = x]
    IN  IF name \in DOMAIN v.argNameToIndex
        THEN LET off    == v.argNameToIndex[name] * SizeofDouble
                 loaded == {i \in 1..Len(v.code) : v.code[i].op = "movsd" /\ v.code[i].off = off}
             IN  IF loaded = {} THEN Out(Emit(v1, Movsd(x, off)), x, "none")
                 ELSE Out(v, v.code[CHOOSE i \in loaded : TRUE].dst, "none")
        ELSE Out(v1, 0, "out_of_range")

\* The symbolHandler of CodeGenCalculatorFunction: argNameToIndex.at(name)
\* throws std::out_of_range for a name that is not a key.
CodeGenSymbolHandler(v, name) ==
    LET x  == v.nXmm + 1
        v1 == [v EXCEPT !.nXmm = x]
    IN  IF name \in DOMAIN v.argNameToIndex
        THEN Out(Emit(v1, Movsd(x, v.argNameToIndex[name] * SizeofDouble)), x, "none")
        ELSE Out(v1, 0, "out_of_range")

\* The symbolHandler of CalculatorFunction: argNameToIndex[name] inserts the
\* name with index 0 when it is not a key.
CalculatorSymbolHandler(v, name) ==
    LET map == IF name \in DOMAIN v.argNameToIndex
               THEN v.argNameToIndex
               ELSE v.argNameToIndex @@ (name :> 0)
    IN  ReadArg([v EXCEPT !.argNameToIndex = map], map[name])

symbolHandler(v, name) ==
    IF v.kind = "CodeGen" THEN CodeGenSymbolHandler(v, name)
    ELSE CalculatorSymbolHandler(v, name)

(***************************************************************************)
(* Visitor::eval.  path is the position of c in the tree (the child        *)
(* indexes from the root), used only to log the walk:                      *)
(*   "find"  functionMap.find for the List at path                         *)
(*   "call"  the operation f of the List at path is invoked with rs        *)
(*   "ret"   eval of the node at path returned r                           *)
(***************************************************************************)
RECURSIVE eval(_, _, _)
RECURSIVE evalOperands(_, _, _, _)

\* Mutant: the operands are evaluated from the last to the first.
RECURSIVE evalOperandsBackwards(_, _, _, _)
evalOperandsBackwards(acc, c, path, i) ==
    IF i > Len(c.list) \/ acc.err # "none" THEN acc
    ELSE LET k == Len(c.list) + 2 - i
             e == eval(acc.v, c.list[k], Append(path, k))
         IN  evalOperandsBackwards([v |-> e.v, rs |-> <<e.r>> \o acc.rs, err |-> e.err],
                                   c, path, i + 1)

\* std::transform over c.list.begin()+1 .. c.list.end(): the operands one after
\* the other from child i on; an exception ends the loop.
evalOperands(acc, c, path, i) ==
    IF i > Len(c.list) \/ acc.err # "none" THEN acc
    ELSE LET e == eval(acc.v, c.list[i], Append(path, i))
         IN  evalOperands([v |-> e.v, rs |-> Append(acc.rs, e.r), err |-> e.err],
                          c, path, i + 1)

\* Mutant: an unknown operation gives EvalReturn() instead of an exception.
evalListNoThrow(v, c, path) ==
    LET a    == evalOperands([v |-> v, rs |-> <<>>, err |-> "none"], c, path, 2)
        name == c.list[1].val
        v1   == Log(a.v, [e |-> "find", at |-> path, f |-> name, rs |-> <<>>])
    IN  IF a.err # "none" THEN Out(a.v, EvalReturnDefault(v), a.err)
        ELSE IF name \notin DOMAIN v.functionMap
             THEN Out(v1, EvalReturnDefault(v), "none")
             ELSE CallFunction(Log(v1, [e |-> "call", at |-> path, f |-> name, rs |-> a.rs]),
                               v.functionMap[name], a.rs)

evalList(v, c, path) ==
    LET a    == evalOperands([v |-> v, rs |-> <<>>, err |-> "none"], c, path, 2)
        name == c.list[1].val
        v1   == Log(a.v, [e |-> "find", at |-> path, f |-> name, rs |-> <<>>])
    IN  IF a.err # "none" THEN Out(a.v, EvalReturnDefault(v), a.err)
        ELSE IF name \notin DOMAIN v.functionMap
             THEN Out(v1, EvalReturnDefault(v), "unknown-operation")
             ELSE CallFunction(Log(v1, [e |-> "call", at |-> path, f |-> name, rs |-> a.rs]),
                               v.functionMap[name], a.rs)

\* case Cell::Symbol: without a symbolHandler the std::runtime_error is built
\* but not thrown, and control reaches "return EvalReturn()".
evalSymbol(v, c) ==
    IF v.symbolHandler # "none" THEN symbolHandler(v, c.val)
    ELSE Out(v, EvalReturnDefault(v), "none")

eval(v, c, path) ==
    LET o == CASE c.type = "Number" -> numberHandler(v, c.val)
               [] c.type = "List"   -> evalList(v, c, path)
               [] c.type = "Symbol" -> evalSymbol(v, c)
    IN  IF o.err = "none"
        THEN Out(Log(o.v, [e |-> "ret", at |-> path, f |-> <<>>, rs |-> <<o.r>>]), o.r, "none")
        ELSE o

(***************************************************************************)
(* The three classes built on the visitor.                                 *)
(***************************************************************************)
NoMap == [n \in {} |-> 0]

\* What an out-of-bounds read does: the process dies, or the read gives val.
Oracle(crash, val) == [crash |-> crash, val |-> val]
NoOracle == Oracle(TRUE, Dbl(0))

Visitor(kind, functionMap) ==
    [kind |-> kind, functionMap |-> functionMap, symbolHandler |-> "none",
     argNameToIndex |-> NoMap, args |-> <<>>, oracle |-> NoOracle, oob |-> FALSE,
     code |-> <<>>, nXmm |-> 0, nGp |-> 0, trace |-> <<>>,
     generatedFunction |-> <<>>, walks |-> 0, state |-> "live", freed |-> 0]

\* A function object that has not been constructed yet.
NotConstructed(kind) == [Visitor(kind, NoMap) EXCEPT !.state = "none"]

\* Calculator(): no symbolHandler
Calculator == Visitor("Calculator", CalculatorFunctionMap)

\* for(i = 0; i < names.size(); ++i) argNameToIndex[names[i]] = i;
RECURSIVE BindNames(_, _, _)
BindNames(map, names, i) ==
    IF i >= Len(names) THEN map
    ELSE BindNames([n \in DOMAIN map \cup {names[i + 1]} |->
                       IF n = names[i + 1] THEN i ELSE map[n]], names, i + 1)

\* CalculatorFunction(names, c)
CalculatorFunction(names) ==
    [Visitor("CalculatorFunction", CalculatorFunctionMap) EXCEPT
        !.argNameToIndex = BindNames(NoMap, names, 0)]

\* What a call leaves behind: the result and how the call ended.
\*   st  "none" (no call), "ok", "crash", or the exception thrown
Result(st, val, oob) == [st |-> st, val |-> val, oob |-> oob]
NoResult == Result("none", Dbl(0), FALSE)

\* CalculatorFunction::operator()(args): binds the symbolHandler to args and
\* walks the tree.  Gives the object afterwards, the result and the log of
\* the walk.
CalculatorFunctionCall(f, c, args, oracle) ==
    LET v == [f EXCEPT !.symbolHandler = "args", !.args = args, !.oracle = oracle,
                       !.oob = FALSE, !.trace = <<>>]
        e == eval(v, c, <<>>)
    IN  [f     |-> [e.v EXCEPT !.args = <<>>, !.oracle = NoOracle, !.trace = <<>>],
         out   |-> Result(IF e.err = "none" THEN "ok" ELSE e.err, e.r, e.v.oob),
         trace |-> e.v.trace]

\* Calculator().eval(c)
CalculatorEval(c) ==
    LET e == eval(Calculator, c, <<>>)
    IN  [f   |-> e.v,
         out |-> Result(IF e.err = "none" THEN "ok" ELSE e.err, e.r, e.v.oob)]

\* CodeGenCalculatorFunction::generate(c): one walk, then ret and make().
\* An exception of the walk leaves the constructor, and no object exists.
generate(v, c) ==
    LET e == eval([v EXCEPT !.walks = @ + 1], c, <<>>)
    IN  IF e.err # "none" THEN [e.v EXCEPT !.state = e.err]
        ELSE LET done == Emit(e.v, Ret(e.r))
             IN  [done EXCEPT !.generatedFunction = done.code]

\* CodeGenCalculatorFunction(names, cell)
CodeGenCalculatorFunction(names, c) ==
    generate([Visitor("CodeGen", CodeGenFunctionMap) EXCEPT
                 !.symbolHandler = "codegen",
                 !.argNameToIndex = BindNames(NoMap, names, 0)], c)

(***************************************************************************)
(* The generated routine: the emitted instructions run on the argument     *)
(* array.  m = [xmm, gp, out]: the registers and, once ret is reached or   *)
(* the process died, the result.                                           *)
(***************************************************************************)
Step(m, ins, args, oracle) ==
    CASE ins.op = "mov"   -> [m EXCEPT !.gp = (ins.dst :> ins.imm) @@ @]
      [] ins.op = "movq"  -> [m EXCEPT !.xmm = (ins.dst :> m.gp[ins.src]) @@ @]
      [] ins.op = "movsd" ->
            LET i == ins.off \div SizeofDouble
            IN  IF i < Len(args) THEN [m EXCEPT !.xmm = (ins.dst :> args[i + 1]) @@ @]
                ELSE IF oracle.crash THEN [m EXCEPT !.out = Result("crash", Dbl(0), TRUE)]
                ELSE [m EXCEPT !.xmm = (ins.dst :> oracle.val) @@ @, !.oob = TRUE]
      [] ins.op = "ret"   -> [m EXCEPT !.out = Result("ok", m.xmm[ins.src], m.oob)]
      [] OTHER            ->
            [m EXCEPT !.xmm = (ins.dst :> Apply(ins.op, m.xmm[ins.dst], m.xmm[ins.src])) @@ @]

RECURSIVE Run(_, _, _, _, _)
Run(code, i, m, args, oracle) ==
    IF i > Len(code) \/ m.out.st # "none" THEN m.out
    ELSE Run(code, i + 1, Step(m, code[i], args, oracle), args, oracle)

\* Mutant: a call walks again, emitting the instructions once more.
CodeGenCallEmitting(f, args, oracle) ==
    [f   |-> [f EXCEPT !.walks = @ + 1, !.code = @ \o f.generatedFunction],
     out |-> Run(f.generatedFunction, 1,
                 [xmm |-> NoMap, gp |-> NoMap, oob |-> FALSE, out |-> NoResult],
                 args, oracle)]

\* CodeGenCalculatorFunction::operator()(args): generatedFunction(&args[0])
CodeGenCall(f, args, oracle) ==
    [f   |-> f,
     out |-> Run(f.generatedFunction, 1,
                 [xmm |-> NoMap, gp |-> NoMap, oob |-> FALSE, out |-> NoResult],
                 args, oracle)]

\* Mutant: the destructor does not free the routine.
DestructorLeaking(f) == [f EXCEPT !.state = "destroyed"]

\* ~CodeGenCalculatorFunction(): MemoryManager::getGlobal()->free(generatedFunction)
Destructor(f) == [f EXCEPT !.state = "destroyed", !.freed = @ + 1]

(***************************************************************************)
(* The inputs: formulas ((p1 ... pn) body) and argument vectors.           *)
(***************************************************************************)
\* Operation names at the head of a List; "%" is in no functionMap.
OpNames == {Str1("+"), Str1("-"), Str1("*"), Str1("/"), Str1("%")}

\* Parameter lists; with (x) the symbol y of a body is undeclared.
X == Str1("x")
Y == Str1("y")
NameLists == {<<X>>, <<X, Y>>}

Leaves == {Number(<<"1", "0", ".", "5">>), Symbol(X), Symbol(Y)}

\* Trees with exactly n List nodes, and sequences of m trees with n List
\* nodes in all.
RECURSIVE TreesOf(_)
RECURSIVE ForestsOf(_, _)
ForestsOf(m, n) ==
    IF m = 0 THEN (IF n = 0 THEN {<<>>} ELSE {})
    ELSE UNION {{<<t>> \o s : t \in TreesOf(j), s \in ForestsOf(m - 1, n - j)} : j \in 0..n}

TreesOf(n) ==
    IF n = 0 THEN Leaves
    ELSE {List(<<Symbol(op)>> \o s) : op \in OpNames, s \in ForestsOf(2, n - 1)}

\* Larger bodies: the formula of the usage text, a parameter used twice
\* under a nested operation, nesting on the right and on both sides, an
\* unknown operation above and below a known one, and a third operand.
Num105 == Number(<<"1", "0", ".", "5">>)
Op(name, a, b) == List(<<Symbol(Str1(name)), a, b>>)
Examples ==
    {Op("+", Op("*", Symbol(X), Symbol(Y)), Num105),
     Op("+", Op("*", Symbol(X), Symbol(X)), Symbol(X)),
     Op("-", Symbol(X), Op("/", Symbol(Y), Symbol(X))),
     Op("-", Op("-", Symbol(X), Symbol(Y)), Op("/", Symbol(X), Symbol(Y))),
     Op("/", Op("-", Num105, Symbol(X)), Op("*", Symbol(X), Num105)),
     Op("%", Op("-", Symbol(X), Symbol(Y)), Symbol(X)),
     Op("-", Op("%", Symbol(X), Symbol(Y)), Symbol(Y)),
     List(<<Symbol(Str1("-")), Symbol(X), Symbol(Y), Num105>>),
     List(<<Symbol(Str1("/")), Op("-", Symbol(X), Symbol(Y)), Symbol(X), Symbol(Y)>>)}

Bodies == UNION {TreesOf(n) : n \in 0..MaxOps} \cup Examples

ArgVals == {Dbl(0), Dbl(2)}
ArgVectors == UNION {[1..n -> ArgVals] : n \in 0..MaxArgs}

\* What an out-of-bounds read can do: kill the process or give some double.
Garbage == Dbl(7)
Oracles == {Oracle(TRUE, Dbl(0)), Oracle(FALSE, Garbage)}

(***************************************************************************)
(* The program: a formula is fixed; the bare Calculator, the interpreted   *)
(* function and the compiled function are built from it and called with    *)
(* argument vectors, and the compiled function is destroyed.               *)
(***************************************************************************)
VARIABLES
    argNames,             \* the parameter names of the formula
    expr,                 \* its body
    interpretedFunction,  \* the CalculatorFunction
    jitFunction,          \* the CodeGenCalculatorFunction
    numericArgs,          \* the argument vector in use
    calcOut,              \* result of the bare Calculator on the body
    interpOut,            \* result of interpretedFunction(numericArgs)
    interpTrace,          \* the log of the walk of that call
    jitOut,               \* result of jitFunction(numericArgs)
    crashed               \* the process died in undefined behaviour

vars == <<argNames, expr, interpretedFunction, jitFunction, numericArgs,
          calcOut, interpOut, interpTrace, jitOut, crashed>>

Init ==
    /\ argNames \in NameLists
    /\ expr \in Bodies
    /\ interpretedFunction = NotConstructed("CalculatorFunction")
    /\ jitFunction = NotConstructed("CodeGen")
    /\ numericArgs = <<>>
    /\ calcOut = NoResult
    /\ interpOut = NoResult
    /\ interpTrace = <<>>
    /\ jitOut = NoResult
    /\ crashed = FALSE

\* Calculator().eval(expr)
EvalCalculator ==
    /\ ~crashed
    /\ calcOut.st = "none"
    /\ calcOut' = CalculatorEval(expr).out
    /\ UNCHANGED <<argNames, expr, interpretedFunction, jitFunction, numericArgs,
                   interpOut, interpTrace, jitOut, crashed>>

\* CalculatorFunction interpretedFunction(argNames, expr);
ConstructInterpreted ==
    /\ ~crashed
    /\ calcOut.st # "none"
    /\ interpretedFunction.state = "none"
    /\ interpretedFunction' = CalculatorFunction(argNames)
    /\ UNCHANGED <<argNames, expr, jitFunction, numericArgs, calcOut, interpOut,
                   interpTrace, jitOut, crashed>>

\* CodeGenCalculatorFunction jitFunction(argNames, expr);
ConstructJit ==
    /\ ~crashed
    /\ interpretedFunction.state = "live"
    /\ jitFunction.state = "none"
    /\ jitFunction' = CodeGenCalculatorFunction(argNames, expr)
    /\ UNCHANGED <<argNames, expr, interpretedFunction, numericArgs, calcOut,
                   interpOut, interpTrace, jitOut, crashed>>

\* The caller takes another argument vector, once both functions are built
\* and, later, once the vector in use has been through the calls.
NewArgs ==
    /\ ~crashed
    /\ interpretedFunction.state = "live"
    /\ jitFunction.state # "none"
    /\ \/ numericArgs = <<>> /\ interpOut.st = "none"
       \/ interpOut.st # "none" /\ (jitOut.st # "none" \/ jitFunction.state # "live")
    /\ \E a \in ArgVectors : numericArgs' = a
    /\ interpOut' = NoResult
    /\ interpTrace' = <<>>
    /\ jitOut' = NoResult
    /\ UNCHANGED <<argNames, expr, interpretedFunction, jitFunction, calcOut, crashed>>

\* interpretedFunction(numericArgs)
CallInterpreted ==
    /\ ~crashed
    /\ interpretedFunction.state = "live"
    /\ jitFunction.state # "none"
    /\ interpOut.st = "none"
    /\ \E o \in Oracles :
          LET r == CalculatorFunctionCall(interpretedFunction, expr, numericArgs, o)
          IN  /\ interpretedFunction' = r.f
              /\ interpOut' = r.out
              /\ interpTrace' = r.trace
              /\ crashed' = (r.out.st = "crash")
    /\ UNCHANGED <<argNames, expr, jitFunction, numericArgs, calcOut, jitOut>>

\* jitFunction(numericArgs), after the interpreted call as in main
CallJit ==
    /\ ~crashed
    /\ jitFunction.state = "live"
    /\ interpOut.st # "none"
    /\ jitOut.st = "none"
    /\ \E o \in Oracles :
          LET r == CodeGenCall(jitFunction, numericArgs, o)
          IN  /\ jitFunction' = r.f
              /\ jitOut' = r.out
              /\ crashed' = (r.out.st = "crash")
    /\ UNCHANGED <<argNames, expr, interpretedFunction, numericArgs, calcOut, interpOut,
                   interpTrace>>

\* The end of the scope: jitFunction is destroyed, then interpretedFunction
\* and numericArgs.
LeaveScope ==
    /\ ~crashed
    /\ jitFunction.state = "live"
    /\ jitFunction' = Destructor(jitFunction)
    /\ interpretedFunction' = [interpretedFunction EXCEPT !.state = "destroyed"]
    /\ numericArgs' = <<>>
    /\ interpOut' = NoResult
    /\ interpTrace' = <<>>
    /\ jitOut' = NoResult
    /\ UNCHANGED <<argNames, expr, calcOut, crashed>>

Next ==
    \/ EvalCalculator
    \/ ConstructInterpreted
    \/ ConstructJit
    \/ NewArgs
    \/ CallInterpreted
    \/ CallJit
    \/ LeaveScope

Spec == Init /\ [][Next]_vars

(***************************************************************************)
(* Vocabulary of the properties.                                           *)
(***************************************************************************)
\* The names used as operands somewhere in c, and the names at the head of
\* a List of c.
RECURSIVE SymbolsOf(_)
SymbolsOf(c) ==
    CASE c.type = "Symbol" -> {c.val}
      [] c.type = "Number" -> {}
      [] c.type = "List"   -> UNION {SymbolsOf(c.list[i]) : i \in 2..Len(c.list)}

RECURSIVE HeadsOf(_)
HeadsOf(c) ==
    IF c.type = "List"
    THEN {c.list[1].val} \cup UNION {HeadsOf(c.list[i]) : i \in 2..Len(c.list)}
    ELSE {}

Params == {argNames[i] : i \in DOMAIN argNames}
Arithmetic == {Str1("+"), Str1("-"), Str1("*"), Str1("/")}

\* The body uses only + - * / and declared parameters.
WellFormed == HeadsOf(expr) \subseteq Arithmetic /\ SymbolsOf(expr) \subseteq Params
ArityMatches == Len(numericArgs) = Len(argNames)
Constructed(f) == f.state \in {"live", "destroyed"}

\* C1: for a well-formed formula and an argument vector of the declared
\* length, the compiled function is constructed, both functions return, and
\* they return the same double.
C1_SameResult ==
    (WellFormed /\ ArityMatches) =>
        /\ jitFunction.state # "none" => Constructed(jitFunction)
        /\ interpOut.st # "none" => interpOut.st = "ok" /\ ~interpOut.oob
        /\ jitOut.st # "none" => jitOut.st = "ok" /\ ~jitOut.oob
        /\ (interpOut.st # "none" /\ jitOut.st # "none") => interpOut.val = jitOut.val

\* (+ (* x y) 10.5) at x = 2, y = 2 gives 14.5 on both sides.
C1_Witness ==
    /\ expr = Op("+", Op("*", Symbol(X), Symbol(Y)), Num105)
    /\ numericArgs = <<Dbl(2), Dbl(2)>>
    /\ interpOut = Result("ok", Fin(1, 29, 2), FALSE)
    /\ jitOut = Result("ok", Fin(1, 29, 2), FALSE)

\* The body has a List whose head is none of + - * /.
UnknownHead == HeadsOf(expr) \ Arithmetic # {}

\* The walk that left trace tr looked up only known operations, except
\* possibly in its last step, and then it ended in failure st.
FailsAtUnknown(tr, st) ==
    \A i \in 1..Len(tr) :
        (tr[i].e = "find" /\ tr[i].f \notin Arithmetic) =>
            i = Len(tr) /\ st = "unknown-operation"

\* C2: a formula with an unknown operation never gives a value: the
\* interpreted call (and the bare Calculator) fails and the compiled function
\* is not constructed; a walk that reaches the lookup of the unknown name stops
\* there with the unknown-operation error, and that is the error of both back
\* ends when the operands themselves evaluate (declared parameters, enough
\* arguments).
C2_UnknownOperation ==
    /\ UnknownHead =>
          /\ interpOut.st # "ok"
          /\ calcOut.st \in {"none", "unknown-operation"}
          /\ ~Constructed(jitFunction)
          /\ (SymbolsOf(expr) \subseteq Params /\ jitFunction.state # "none")
                => jitFunction.state = "unknown-operation"
          /\ (SymbolsOf(expr) \subseteq Params /\ ArityMatches /\ interpOut.st # "none")
                => interpOut.st = "unknown-operation"
    /\ FailsAtUnknown(jitFunction.trace, jitFunction.state)
    /\ interpOut.st # "none" => FailsAtUnknown(interpTrace, interpOut.st)

\* ((x) (% x x)) fails in both back ends.
C2_Witness ==
    /\ expr = Op("%", Symbol(X), Symbol(X))
    /\ argNames = <<X>>
    /\ numericArgs = <<Dbl(2)>>
    /\ interpOut.st = "unknown-operation"
    /\ jitFunction.state = "unknown-operation"

\* C3: the bare Calculator, evaluating a formula of known operations that has
\* a symbol among its operands, fails and returns no value.
C3_UnresolvedSymbol ==
    (calcOut.st # "none" /\ SymbolsOf(expr) # {} /\ ~UnknownHead) => calcOut.st # "ok"

\* C4: a call with an argument vector of another length than the parameter
\* list fails with an argument-count-mismatch error and reads nothing outside
\* the vector.
C4_ArgumentCount ==
    ~ArityMatches =>
        /\ interpOut.st # "none" => interpOut.st = "argument-count-mismatch" /\ ~interpOut.oob
        /\ jitOut.st # "none" => jitOut.st = "argument-count-mismatch" /\ ~jitOut.oob

\* C5: when the body uses a symbol that is not a declared parameter, the
\* compiled function is not constructed and the interpreted call fails; no
\* back end gives a number.  (Stated for the calls that read no argument out
\* of bounds, whose behaviour is defined.)
C5_UndeclaredSymbol ==
    ~(SymbolsOf(expr) \subseteq Params) =>
        /\ ~Constructed(jitFunction)
        /\ ~interpOut.oob => interpOut.st # "ok"

\* C6: the compiled function walks the tree once, in its constructor; the
\* walk count, the emitted instructions and the routine are the same after
\* every step taken while the function exists.
C6_GeneratedOnce ==
    /\ [](Constructed(jitFunction) =>
             /\ jitFunction.walks = 1
             /\ jitFunction.generatedFunction = jitFunction.code)
    /\ [][(jitFunction.state = "live") =>
             /\ jitFunction'.walks = jitFunction.walks
             /\ jitFunction'.code = jitFunction.code
             /\ jitFunction'.generatedFunction = jitFunction.generatedFunction]_vars

\* The compiled function has been called with a second argument vector.
C6_Witness ==
    /\ jitFunction.state = "live"
    /\ jitFunction.walks = 1
    /\ numericArgs = <<Dbl(2), Dbl(0)>>
    /\ jitOut.st = "ok"
    /\ Len(jitFunction.code) > 3

\* C7: the routine is freed once, by the destructor: never more than once,
\* freed exactly when the function is destroyed, and a call of the routine
\* happens only before the release.
C7_FreedOnce ==
    /\ [](/\ jitFunction.freed \in {0, 1}
          /\ jitFunction.freed = 1 <=> jitFunction.state = "destroyed")
    /\ [][(jitOut' # jitOut /\ jitOut'.st # "none") =>
             jitFunction.freed = 0 /\ jitFunction'.freed = 0]_vars

C7_Witness ==
    /\ jitFunction.state = "destroyed"
    /\ jitFunction.freed = 1
    /\ Len(jitFunction.generatedFunction) > 0

\* C8: the name-to-position binding of both functions stays what the
\* constructor made of the parameter names.  (Stated for the calls that read
\* no argument out of bounds, whose behaviour is defined.)
C8_BindingFixed ==
    /\ (interpretedFunction.state = "live" /\ ~interpOut.oob) =>
          interpretedFunction.argNameToIndex = BindNames(NoMap, argNames, 0)
    /\ Constructed(jitFunction) =>
          jitFunction.argNameToIndex = BindNames(NoMap, argNames, 0)

\* The positions of code that name SSE register x: where it is loaded,
\* where an operation overwrites it, and where it is only read.
Loads(code, x) == {i \in 1..Len(code) : code[i].op \in {"movq", "movsd"} /\ code[i].dst = x}
Overwrites(code, x) ==
    {i \in 1..Len(code) : code[i].op \in {"addsd", "subsd", "mulsd", "divsd"} /\ code[i].dst = x}
Reads(code, x) ==
    {i \in 1..Len(code) : code[i].op \in {"addsd", "subsd", "mulsd", "divsd", "ret"}
                            /\ code[i].src = x}

\* Every register is loaded once, before anything else is done with it, and
\* is read as a second operand or as the return value at most once, after
\* which it is not named again; no operation has the same register twice.
LinearUse(code, nXmm) ==
    \A x \in 1..nXmm :
        /\ Cardinality(Loads(code, x)) <= 1
        /\ \A i \in Loads(code, x) : \A j \in Overwrites(code, x) \cup Reads(code, x) : i < j
        /\ (Overwrites(code, x) \cup Reads(code, x) # {}) => Loads(code, x) # {}
        /\ Cardinality(Reads(code, x)) <= 1
        /\ \A i \in Reads(code, x) :
              \A j \in Loads(code, x) \cup Overwrites(code, x) : j < i

\* The handle that the node at position i of the walk returned is handed to
\* exactly one operation, the one of the parent, or is the handle returned by
\* the whole walk.
ConsumedOnce(tr, i) ==
    LET at == tr[i].at
        h  == tr[i].rs[1]
    IN  IF at = <<>> THEN i = Len(tr)
        ELSE Cardinality({j \in (i + 1)..Len(tr) :
                             /\ tr[j].e = "call"
                             /\ tr[j].at = SubSeq(at, 1, Len(at) - 1)
                             /\ tr[j].rs[at[Len(at)] - 1] = h}) = 1

\* The handles two nodes returned are the same register only when one node
\* is the first operand, at any depth, of the other.
RECURSIVE FirstOperandOf(_, _)
FirstOperandOf(at, below) ==
    \/ at = below
    \/ /\ Len(below) > Len(at)
       /\ below[Len(below)] = 2
       /\ FirstOperandOf(at, SubSeq(below, 1, Len(below) - 1))

\* C9: in the walk of the code generator, every handle returned by a node is
\* consumed exactly once, every register is used linearly (so no overwrite
\* changes a value that is read later), and two nodes share a register only
\* along a chain of first operands: two references to a parameter never do.
C9_HandlesConsumedOnce ==
    LET tr   == jitFunction.trace
        rets == {i \in 1..Len(tr) : tr[i].e = "ret"}
    IN  /\ LinearUse(jitFunction.code, jitFunction.nXmm)
        /\ Constructed(jitFunction) =>
              /\ \A i \in rets : ConsumedOnce(tr, i)
              /\ jitFunction.code[Len(jitFunction.code)] = Ret(tr[Len(tr)].rs[1])
        /\ \A i, j \in rets :
              (tr[i].rs[1] = tr[j].rs[1]) =>
                  FirstOperandOf(tr[i].at, tr[j].at) \/ FirstOperandOf(tr[j].at, tr[i].at)

\* (+ (* x x) x): three loads of x into three registers, the first one
\* overwritten twice.
C9_Witness ==
    /\ expr = Op("+", Op("*", Symbol(X), Symbol(X)), Symbol(X))
    /\ jitFunction.state = "live"
    /\ jitFunction.generatedFunction =
          <<Movsd(1, 0), Movsd(2, 0), Arith("mulsd", 1, 2), Movsd(3, 0),
            Arith("addsd", 1, 3), Ret(1)>>

\* The node of c at path.
RECURSIVE NodeAt(_, _)
NodeAt(c, path) == IF path = <<>> THEN c ELSE NodeAt(c.list[path[1]], Tail(path))

\* The steps of a post-order walk of c, which is at path: the operands from
\* left to right, then the lookup, the operation and the return.
RECURSIVE PostOrder(_, _)
RECURSIVE PostOrderFrom(_, _, _)
PostOrderFrom(c, path, i) ==
    IF i > Len(c.list) THEN <<>>
    ELSE PostOrder(c.list[i], Append(path, i)) \o PostOrderFrom(c, path, i + 1)

PostOrder(c, path) ==
    IF c.type = "List"
    THEN PostOrderFrom(c, path, 2) \o <<<<"find", path>>, <<"call", path>>, <<"ret", path>>>>
    ELSE <<<<"ret", path>>>>

Steps(tr) == [i \in 1..Len(tr) |-> <<tr[i].e, tr[i].at>>]
IsPrefix(a, b) == Len(a) <= Len(b) /\ a = SubSeq(b, 1, Len(a))

\* Every operation of the walk is the one named by the head of its List and
\* gets the results of all the operands of the List, in their order.
OperandsInOrder(tr) ==
    \A j \in 1..Len(tr) :
        tr[j].e = "call" =>
            LET n == NodeAt(expr, tr[j].at)
            IN  /\ tr[j].f = n.list[1].val
                /\ Len(tr[j].rs) = Len(n.list) - 1
                /\ \A k \in 1..Len(tr[j].rs) :
                      \E i \in 1..(j - 1) :
                          /\ tr[i].e = "ret"
                          /\ tr[i].at = Append(tr[j].at, k + 1)
                          /\ tr[i].rs[1] = tr[j].rs[k]

\* C10: the walk of either back end is the post-order walk of the body, as
\* far as it gets and to the end when it succeeds, and every operation gets its
\* operands' results in their order.
C10_PostOrder ==
    /\ IsPrefix(Steps(interpTrace), PostOrder(expr, <<>>))
    /\ IsPrefix(Steps(jitFunction.trace), PostOrder(expr, <<>>))
    /\ interpOut.st = "ok" => Steps(interpTrace) = PostOrder(expr, <<>>)
    /\ Constructed(jitFunction) => Steps(jitFunction.trace) = PostOrder(expr, <<>>)
    /\ OperandsInOrder(interpTrace)
    /\ OperandsInOrder(jitFunction.trace)

\* (- (- x y) (/ x y)) at x = 2, y = 2: (2 - 2) - (2 / 2) = -1, after thirteen
\* steps in each back end.
C10_Witness ==
    /\ expr = Op("-", Op("-", Symbol(X), Symbol(Y)), Op("/", Symbol(X), Symbol(Y)))
    /\ numericArgs = <<Dbl(2), Dbl(2)>>
    /\ interpOut = Result("ok", Dbl(-1), FALSE)
    /\ Len(interpTrace) = 13
    /\ Len(jitFunction.trace) = 13
    /\ jitFunction.state = "live"

====
